---- MODULE Spec2Model ----
(***************************************************************************)
(* Model of extract_pgsql_models_ext.py: the rule filter                   *)
(* (get_generateInfo), the foreign-key resolver (references), the type and *)
(* default mapper (define_field) and the emitter (define_table,            *)
(* define_db).                                                             *)
(*                                                                         *)
(* Python values are represented as follows.                               *)
(*   str            a TLA+ string                                          *)
(*   None | value   the sequences <<>> and <<value>>                       *)
(*   list / tuple   a sequence                                             *)
(*   dict           a function from keys to values                         *)
(*   raise E        a record whose exc field is the exception's name       *)
(* The catalog is external: the answer to each query is drawn when the     *)
(* query is issued.                                                        *)
(***************************************************************************)
EXTENDS Integers, Sequences, FiniteSets, TLC

VARIABLES
    FILTERS,        \* the rule list the build was configured with
    pc,             \* position of the running specification
    dbObjectInfo,   \* get_generateInfo: the subject tuple
    generateInfo,   \* get_generateInfo: the returned directive
    field,          \* define_field: the FieldInfo argument
    pksArg,         \* define_field: the pks argument
    rows1,          \* references: rows of the referencing-side query
    rows2,          \* references: rows of the referenced-side query
    commentRows,    \* get_comment: rows of the comment query
    refRet,         \* references: what the call returned or raised
    ret,            \* define_field: what the call returned or raised
    rows,           \* get_tables: rows of the information_schema.tables query
    tables,         \* define_db: the list get_tables returned
    ti,             \* define_db: index of the table being defined
    fields,         \* define_table: the list get_fields returned
    fi,             \* define_table: index of the field being defined
    pks,            \* define_table: the primary-key list, as mutated so far
    primarykeys0,   \* define_table: the list primarykeys() returned
    out,            \* standard output, one entry per printed line
    queries,        \* every per-table or per-column query issued so far
    err             \* the uncaught exception that ended the run, "" if none

vars == <<FILTERS, pc, dbObjectInfo, generateInfo, field, pksArg, rows1, rows2,
          commentRows, refRet, ret, rows, tables, ti, fields, fi, pks, primarykeys0,
          out, queries, err>>

filterVars == <<dbObjectInfo, generateInfo>>
fieldVars == <<field, pksArg, rows1, rows2, commentRows, refRet, ret>>
runVars == <<rows, tables, ti, fields, fi, pks, primarykeys0, out, queries, err>>

-----------------------------------------------------------------------------
(* Python values *)

None == <<>>

Some(v) == <<v>>

\* dict(): the empty dict
EmptyDict == [k \in {} |-> ""]

\* str.startswith
startswith(s, prefix) ==
    /\ Len(s) >= Len(prefix)
    /\ SubSeq(s, 1, Len(prefix)) = prefix

\* "x in list"
In(x, list) == \E i \in 1..Len(list) : list[i] = x

\* list.index(x): the first position of x
index(list, x) == CHOOSE i \in 1..Len(list) :
    /\ list[i] = x
    /\ \A j \in 1..(i - 1) : list[j] # x

\* list.pop(i)
pop(list, i) == SubSeq(list, 1, i - 1) \o SubSeq(list, i + 1, Len(list))

-----------------------------------------------------------------------------
(* Filter engine *)

TableGenerateInfo(prefix) == [prefix |-> prefix]

FieldGenerateInfo(definitions) == [definitions |-> definitions]

\* The rule list of the module as shipped.
FILTERS_shipped == <<
    << <<"public", "film", "special_features">>, None >>,
    << <<"public", "film", "fulltext">>, None >>,
    << <<"public", "film">>, None >>,
    << <<"public", ".*">>, Some(TableGenerateInfo(Some(""))) >>,
    << <<".*", ".*", ".*">>, Some(FieldGenerateInfo(EmptyDict)) >> >>

\* The rule list the module's documentation gives as the example to edit in.
FILTERS_example == <<
    << <<"public", "film", "special_features">>, None >>,
    << <<"public", "film", "fulltext">>, None >>,
    << <<"public", "actor">>, None >>,
    << <<"public", ".*">>, Some(TableGenerateInfo(Some(""))) >>,
    << <<".*", ".*", ".*">>, Some(FieldGenerateInfo(EmptyDict)) >> >>

FilterLists == {FILTERS_shipped, FILTERS_example}

\* re.match(pattern, value) for the two pattern shapes the rule lists use:
\* ".*" matches anything; a pattern without metacharacters matches when the
\* value begins with it (re.match anchors at the start only).
re_match(pattern, value) ==
    IF pattern = ".*" THEN TRUE ELSE startswith(value, pattern)

is_filter_match(patterns, values) ==
    \A i \in 1..Len(values) : re_match(patterns[i], values[i])

RECURSIVE scan_filters(_, _, _)
scan_filters(filters, i, info) ==
    IF i > Len(filters) THEN None
    ELSE IF /\ Len(filters[i][1]) = Len(info)
            /\ is_filter_match(filters[i][1], info)
         THEN filters[i][2]
         ELSE scan_filters(filters, i + 1, info)

RECURSIVE scan_filters_last(_, _, _)
scan_filters_last(filters, i, info) ==
    IF i < 1 THEN None
    ELSE IF /\ Len(filters[i][1]) = Len(info)
            /\ is_filter_match(filters[i][1], info)
         THEN filters[i][2]
         ELSE scan_filters_last(filters, i - 1, info)

\* A lookup in which the last qualifying rule wins.
get_generateInfo_last(filters, info) ==
    scan_filters_last(filters, Len(filters), info)

get_generateInfo(filters, info) ==
    scan_filters(filters, 1, info)

-----------------------------------------------------------------------------
(* Constraint resolver: references *)

\* The row a key_column_usage / referential_constraints join returns.
ReferencingRow(name, delete_rule, ordinal_position) ==
    [constraint_name |-> name, constraint_schema |-> "public",
     delete_rule |-> delete_rule, ordinal_position |-> ordinal_position]

\* The row a constraint_column_usage query returns.
ReferencedRow(column_name) ==
    [table_schema |-> "public", table_name |-> "film_actor",
     column_name |-> column_name]

\* repr() of a str without quotes or escapes in it
repr_str(s) == "'" \o s \o "'"

return(v) == [exc |-> "", msg |-> "", val |-> v]

raise(exc, msg) == [exc |-> exc, msg |-> msg, val |-> None]

\* The dict references() builds from the selected referenced-side row.
ref_dict(row, keyed, delete_rule) ==
    LET type == IF keyed
                THEN "'reference " \o row.table_schema \o "." \o row.table_name
                         \o "." \o row.column_name \o "'"
                ELSE "'reference " \o row.table_schema \o "." \o row.table_name
                         \o "'"
    IN  IF delete_rule # "NO ACTION"
        THEN ("ondelete" :> repr_str(delete_rule)) @@ ("type" :> type)
        ELSE ("type" :> type)

\* A resolver that always selects the first referenced-side row.
references_first_row(r1, r2) ==
    IF Len(r1) = 1
    THEN IF r2 = <<>> THEN return(None)
         ELSE return(Some(ref_dict(r2[1], Len(r2) > 1, r1[1].delete_rule)))
    ELSE IF r1 # <<>>
         THEN raise("RuntimeError", "Unsupported referential constraint")
         ELSE return(None)

\* references(conn, field), given the rows its two queries return.
references(r1, r2) ==
    IF Len(r1) = 1
    THEN IF Len(r2) > 1 /\ r1[1].ordinal_position > Len(r2)
         THEN raise("IndexError", "list index out of range")
         ELSE LET row == IF Len(r2) > 1 THEN Some(r2[r1[1].ordinal_position])
                         ELSE IF Len(r2) = 1 THEN Some(r2[1])
                         ELSE None
                  keyed == Len(r2) > 1
              IN  IF row # None
                  THEN return(Some(ref_dict(row[1], keyed, r1[1].delete_rule)))
                  ELSE IF r2 # <<>>
                       THEN raise("RuntimeError",
                                  "Unsupported foreign key reference")
                       ELSE return(None)
    ELSE IF r1 # <<>>
         THEN raise("RuntimeError", "Unsupported referential constraint")
         ELSE return(None)

-----------------------------------------------------------------------------
(* Type and default mapper: define_field *)

\* The row an information_schema.columns query returns.
ColumnRow(schema, table, column, data_type, is_nullable, length, precision, scale, default) ==
    [table_schema |-> schema, table_name |-> table, column_name |-> column,
     data_type |-> data_type, is_nullable |-> is_nullable,
     character_maximum_length |-> length, numeric_precision |-> precision,
     numeric_scale |-> scale, column_default |-> default]

FieldInfo(info, schema, table, name, data) ==
    [definitions |-> info.definitions, schema |-> schema, table |-> table,
     name |-> name, data |-> data]

\* Truth value of an optional str: None and "" are false.
truthy_str(v) == v # None /\ v[1] # ""

\* Truth value of an optional int: None and 0 are false.
truthy_int(v) == v # None /\ v[1] # 0

\* str() of an optional int
str_int(v) == IF v = None THEN "None" ELSE ToString(v[1])

contains(s, part) ==
    \E i \in 1..(Len(s) - Len(part) + 1) : SubSeq(s, i, i + Len(part) - 1) = part

Digits == {"0", "1", "2", "3", "4", "5", "6", "7", "8", "9"}

\* A decimal integer literal that repr() prints back unchanged.
is_int_literal(s) ==
    /\ s # ""
    /\ \A i \in 1..Len(s) : SubSeq(s, i, i) \in Digits
    /\ Len(s) > 1 => SubSeq(s, 1, 1) # "0"

\* repr(eval(text)) for the three shapes of default text drawn here: an
\* integer literal evaluates to itself; text holding a "::" cast is a
\* SyntaxError; any other text is a bare name or call, a NameError.
repr_eval(text) ==
    IF is_int_literal(text) THEN return(text)
    ELSE IF contains(text, "::") THEN raise("SyntaxError", text)
    ELSE raise("NameError", text)

\* A scale that defaults to 1.
scale_or_1(fld) ==
    IF truthy_int(fld.data.numeric_scale) THEN fld.data.numeric_scale[1] ELSE 1

\* "field['numeric_scale'] or 0"
scale_or_0(fld) ==
    IF truthy_int(fld.data.numeric_scale) THEN fld.data.numeric_scale[1] ELSE 0

\* The if/elif chain on the data type. f is the dict built so far.
data_type_fields(fld, f) ==
    LET dt == fld.data.data_type IN
    IF startswith(dt, "character")
    THEN IF truthy_int(fld.data.character_maximum_length)
         THEN return(("length" :> fld.data.character_maximum_length[1])
                     @@ ("type" :> "'string'") @@ f)
         ELSE return(("type" :> "'string'") @@ f)
    ELSE IF dt \in {"text"} THEN return(("type" :> "'text'") @@ f)
    ELSE IF dt \in {"boolean", "bit"} THEN return(("type" :> "'boolean'") @@ f)
    ELSE IF dt \in {"integer", "smallint", "bigint"}
         THEN return(("type" :> "'integer'") @@ f)
    ELSE IF dt \in {"double precision", "real"}
         THEN return(("type" :> "'double'") @@ f)
    ELSE IF dt \in {"timestamp", "timestamp without time zone"}
         THEN return(("type" :> "'datetime'") @@ f)
    ELSE IF dt \in {"date"} THEN return(("type" :> "'date'") @@ f)
    ELSE IF dt \in {"time", "time without time zone"}
         THEN return(("type" :> "'time'") @@ f)
    ELSE IF dt \in {"numeric", "currency"}
         THEN LET precision == fld.data.numeric_precision
                  scale == scale_or_0(fld)
              IN  return(("type" :> ("'decimal(" \o str_int(precision) \o ","
                                      \o ToString(scale) \o ")'"))
                         @@ ("scale" :> scale)
                         @@ ("precision" :> precision) @@ f)
    ELSE IF dt \in {"bytea"} THEN return(("type" :> "'blob'") @@ f)
    ELSE IF dt \in {"point", "lseg", "polygon", "unknown", "USER-DEFINED"}
         THEN return(("type" :> "") @@ f)
    ELSE raise("RuntimeError",
               "Data Type not supported (" \o fld.schema \o "." \o fld.table
                   \o "." \o fld.name \o "): " \o dt \o " ")

\* The first if/elif chain of define_field: reference, identity, data type.
type_fields(fld, keys, ref) ==
    LET f == fld.definitions IN
    IF ref # None /\ ref[1] # EmptyDict
    THEN return(ref[1] @@ f)
    ELSE IF /\ truthy_str(fld.data.column_default)
            /\ startswith(fld.data.column_default[1], "nextval")
            /\ In(fld.data.column_name, keys)
         THEN return(("type" :> "'id'") @@ f)
         ELSE data_type_fields(fld, f)

\* The try block of define_field: the default literal.
default_fields(fld, f) ==
    LET cd == fld.data.column_default IN
    IF ~truthy_str(cd) THEN return(f)
    ELSE IF cd[1] = "now()" THEN return(("default" :> "request.now") @@ f)
    ELSE IF cd[1] = "true" THEN return(("default" :> "True") @@ f)
    ELSE IF cd[1] = "false" THEN return(("default" :> "False") @@ f)
    ELSE LET d == repr_eval(cd[1]) IN
         IF d.exc = "" THEN return(("default" :> d.val) @@ f)
         ELSE IF d.exc \in {"ValueError", "SyntaxError"} THEN return(f)
         ELSE raise("RuntimeError", "Default unsupported '" \o cd[1] \o "'")

\* "if not field['is_nullable']": a str is false only when empty.
notnull_fields(fld, f) ==
    IF fld.data.is_nullable = "" THEN ("notnull" :> "True") @@ f ELSE f

\* get_comment(conn, field), given the rows its query returns.
get_comment(crows) ==
    IF crows # <<>> /\ crows[1].comment # "" THEN Some(crows[1].comment)
    ELSE None

comment_fields(crows, f) ==
    LET comment == get_comment(crows) IN
    IF comment # None THEN ("comment" :> repr_str(comment[1])) @@ f ELSE f

\* define_field(conn, field, pks), given the rows its queries return.
define_field(fld, keys, r1, r2, crows) ==
    LET ref == references(r1, r2) IN
    IF ref.exc # "" THEN ref
    ELSE LET t == type_fields(fld, keys, ref.val) IN
         IF t.exc # "" THEN t
         ELSE LET d == default_fields(fld, t.val) IN
              IF d.exc # "" THEN d
              ELSE return(comment_fields(crows, notnull_fields(fld, d.val)))

-----------------------------------------------------------------------------
(* Catalog reader and emitter: get_tables, get_fields, define_table *)

\* Constant for Field keyword parameter order (and filter)
KWARGS == <<"type", "length", "default", "required", "ondelete",
            "notnull", "unique", "label", "comment">>

TableInfo(info, schema, name, data) ==
    [prefix |-> info.prefix, schema |-> schema, name |-> name, data |-> data]

get_prefix(table) ==
    IF table.prefix = None THEN table.schema ELSE table.prefix[1]

\* A reader that keeps every table, whatever its rule says.
get_tables_unfiltered(filters, rws) ==
    [i \in 1..Len(rws) |->
        TableInfo(TableGenerateInfo(Some("")), rws[i].table_schema,
                  rws[i].table_name, rws[i])]

\* get_tables(conn), given the rows its query returns.
get_tables(filters, rws) ==
    LET info(row) ==
            get_generateInfo(filters, <<row.table_schema, row.table_name>>)
        kept == SelectSeq(rws, LAMBDA row : info(row) # None)
    IN  [i \in 1..Len(kept) |->
            TableInfo(info(kept[i])[1], kept[i].table_schema,
                      kept[i].table_name, kept[i])]

\* get_fields(conn, table), given the rows its query returns.
get_fields(filters, table, rws) ==
    LET info(row) ==
            get_generateInfo(filters, <<row.table_schema, row.table_name,
                                        row.column_name>>)
        kept == SelectSeq(rws, LAMBDA row : info(row) # None)
    IN  [i \in 1..Len(kept) |->
            FieldInfo(info(kept[i])[1], table.schema, table.name,
                      kept[i].column_name, kept[i])]

\* primarykeys(conn, table), given the rows its query returns.
primarykeys(rws) == [i \in 1..Len(rws) |-> rws[i].column_name]

\* is_unique(conn, field), given the rows its query returns.
is_unique(rws) == rws # <<>>

\* One printed line: the statement it belongs to, the name it carries, the
\* keyword arguments of a Field and the column names of a primarykey.
Line(stmt, name, args, keys) ==
    [stmt |-> stmt, name |-> name, args |-> args, keys |-> keys]

Blank == Line("", "", <<>>, <<>>)

\* The lines define_db prints before it reads the catalog.
print_db_header ==
    <<Line("db = DAL", "", <<>>, <<>>), Blank,
      Line("migrate = False", "", <<>>, <<>>), Blank>>

\* A table that prints no header.
print_no_table_header(table) == <<>>

\* The two lines define_table prints before it defines the fields.
print_table_header(table) ==
    <<Line("db.define_table", get_prefix(table) \o table.name, <<>>, <<>>),
      Line("rname", table.schema \o "." \o table.name, <<>>, <<>>)>>

\* "k in fdef and fdef[k]": length is an int, every other value a str.
kwarg_set(fdef, k) ==
    /\ k \in DOMAIN fdef
    /\ IF k = "length" THEN fdef[k] # 0 ELSE fdef[k] # ""

\* "%s=%s" % (k, fdef[k]), as the pair of its two parts
kwarg(fdef, k) == <<k, IF k = "length" THEN ToString(fdef[k]) ELSE fdef[k]>>

print_field(fname, fdef) ==
    LET ks == SelectSeq(KWARGS, LAMBDA k : kwarg_set(fdef, k))
    IN  <<Line("Field", fname, [i \in 1..Len(ks) |-> kwarg(fdef, ks[i])], <<>>)>>

\* The lines define_table prints after the fields.
print_table_footer(keys) ==
    (IF keys # <<>> THEN <<Line("primarykey", "", <<>>, keys)>> ELSE <<>>)
    \o <<Line("migrate=migrate)", "", <<>>, <<>>), Blank>>

\* A list that pop() leaves as it was.
pop_nothing(list, x) == list

\* "pks.pop(pks.index(fname))"
pop_first(list, x) == pop(list, index(list, x))

\* The record of one query: the function that issued it, the table of the
\* object it was issued for, and the parameters bound into the SQL text.
Query(q, schema, table, args) ==
    [q |-> q, on |-> <<schema, table>>, args |-> args]

-----------------------------------------------------------------------------
(* Specification of the filter engine alone: one lookup on a drawn subject *)

SchemaNames == {"public", "public_old", "other"}

TableNames == {"actor", "actor_info", "fil", "film", "film_actor", "payment"}

ColumnNames == {"film_id", "fulltext", "fulltext_idx", "special_features"}

Subjects ==
    {<<s, t>> : s \in SchemaNames, t \in TableNames}
    \cup {<<s, t, c>> : s \in SchemaNames, t \in TableNames, c \in ColumnNames}

idleFilter == /\ dbObjectInfo = <<>>
              /\ generateInfo = None

idleField == /\ field = None
             /\ pksArg = <<>>
             /\ rows1 = <<>>
             /\ rows2 = <<>>
             /\ commentRows = <<>>
             /\ refRet = None
             /\ ret = None

idleRun == /\ rows = <<>>
           /\ tables = <<>>
           /\ ti = 0
           /\ fields = <<>>
           /\ fi = 0
           /\ pks = <<>>
           /\ primarykeys0 = <<>>
           /\ out = <<>>
           /\ queries = {}
           /\ err = ""

InitFilter ==
    /\ FILTERS \in FilterLists
    /\ pc = "call"
    /\ dbObjectInfo \in Subjects
    /\ generateInfo = None
    /\ idleField
    /\ idleRun

Lookup ==
    /\ pc = "call"
    /\ generateInfo' = get_generateInfo(FILTERS, dbObjectInfo)
    /\ pc' = "returned"
    /\ UNCHANGED <<FILTERS, dbObjectInfo, fieldVars, runVars>>

NextFilter == Lookup

SpecFilter == InitFilter /\ [][NextFilter]_vars

\* The rules that qualify for the subject: same length, every element matched.
Qualifying == {i \in 1..Len(FILTERS) :
    /\ Len(FILTERS[i][1]) = Len(dbObjectInfo)
    /\ \A k \in 1..Len(dbObjectInfo) : re_match(FILTERS[i][1][k], dbObjectInfo[k])}

\* C1: the lookup returns the directive of the first rule, in list order, of
\* the subject's length whose every pattern matches; rules of another length
\* and later matching rules have no influence; None when no rule qualifies.
C1_FirstQualifyingRuleWins ==
    pc = "returned" =>
        IF Qualifying = {} THEN generateInfo = None
        ELSE \E i \in Qualifying :
                /\ \A j \in Qualifying : i <= j
                /\ generateInfo = FILTERS[i][2]

\* A lookup where two rules with different directives qualify, and a rule of
\* another length would match on the elements it shares with the subject.
C1_Witness ==
    /\ pc = "returned"
    /\ \E i, j \in Qualifying : i < j /\ FILTERS[i][2] # FILTERS[j][2]
    /\ \E i \in 1..Len(FILTERS) :
          /\ Len(FILTERS[i][1]) > Len(dbObjectInfo)
          /\ \A k \in 1..Len(dbObjectInfo) :
                re_match(FILTERS[i][1][k], dbObjectInfo[k])
          /\ FILTERS[i][2] # generateInfo

\* A pattern matching the whole of a value.
whole_match(pattern, value) ==
    IF pattern = ".*" THEN TRUE ELSE value = pattern

WholeQualifying == {i \in 1..Len(FILTERS) :
    /\ Len(FILTERS[i][1]) = Len(dbObjectInfo)
    /\ \A k \in 1..Len(dbObjectInfo) :
          whole_match(FILTERS[i][1][k], dbObjectInfo[k])}

\* C9: a rule matches only when every pattern matches the whole of its
\* subject element, so the lookup returns the directive of the first rule
\* that matches in whole (film_actor is not matched by the rule for film).
C9_PatternsMatchWholeElement ==
    pc = "returned" =>
        IF WholeQualifying = {} THEN generateInfo = None
        ELSE \E i \in WholeQualifying :
                /\ \A j \in WholeQualifying : i <= j
                /\ generateInfo = FILTERS[i][2]

-----------------------------------------------------------------------------
(* Specification of the resolver and the mapper alone: one define_field    *)
(* call on a drawn column, with drawn answers to its queries               *)

\* The most columns a foreign key has here.
MaxRef == 2

ReferencedColumns == <<"actor_id", "film_id", "store_id", "staff_id">>

DeleteRules == {"NO ACTION", "CASCADE"}

\* The answers the two queries of references() can give for one column: no
\* foreign key; one foreign key of n columns in which the column is the p-th,
\* whose referenced side is visible to the connected role or not; or two
\* foreign keys.
ReferenceAnswers ==
    {<< <<>>, <<>> >>}
    \cup UNION {
            {<< <<ReferencingRow("fk_a", d, p)>>,
                IF visible
                THEN [i \in 1..n |-> ReferencedRow(ReferencedColumns[i])]
                ELSE <<>> >> :
               d \in DeleteRules, visible \in BOOLEAN, p \in 1..n} :
            n \in 1..MaxRef}
    \cup {<< <<ReferencingRow("fk_a", d, 1), ReferencingRow("fk_b", d, 1)>>,
             <<>> >> : d \in DeleteRules}

CommentAnswers == {<<>>, <<[comment |-> "the film"]>>, <<[comment |-> ""]>>}

DefaultTexts == {"now()", "true", "false", "0", "42", "CURRENT_DATE",
                 "'G'::character varying",
                 "nextval('film_film_id_seq'::regclass)"}

ColumnDefaults == {None} \cup {Some(d) : d \in DefaultTexts}

CharacterTypes == {"character", "character varying"}

NumericTypes == {"numeric", "currency"}

OtherTypes == {"text", "boolean", "bit", "integer", "smallint", "bigint",
               "double precision", "real", "timestamp",
               "timestamp without time zone", "timestamp with time zone",
               "date", "time", "time without time zone",
               "time with time zone", "bytea", "point", "lseg", "polygon",
               "unknown", "USER-DEFINED", "tsvector", "ARRAY"}

\* Data type with the length, precision and scale the catalog reports for it.
TypeShapes ==
    {<<t, l, None, None>> : t \in CharacterTypes, l \in {None, Some(255)}}
    \cup {<<t, None, ps[1], ps[2]>> : t \in NumericTypes,
             ps \in {<<None, None>>, <<Some(10), Some(2)>>,
                     <<Some(10), Some(0)>>, <<Some(10), None>>}}
    \cup {<<t, None, None, None>> : t \in OtherTypes}

FieldInputs ==
    {FieldInfo(FieldGenerateInfo(EmptyDict), "public", "film", "film_id",
               ColumnRow("public", "film", "film_id", ts[1], n, ts[2], ts[3],
                         ts[4], d)) :
        ts \in TypeShapes, n \in {"YES", "NO"}, d \in ColumnDefaults}

PksInputs == {<<>>, <<"film_id">>, <<"store_id", "film_id">>}

InitField ==
    /\ FILTERS = FILTERS_shipped
    /\ pc = "call"
    /\ field \in {Some(f) : f \in FieldInputs}
    /\ pksArg \in PksInputs
    /\ \E a \in ReferenceAnswers : rows1 = a[1] /\ rows2 = a[2]
    /\ commentRows \in CommentAnswers
    /\ refRet = None
    /\ ret = None
    /\ idleFilter
    /\ idleRun

DefineField ==
    /\ pc = "call"
    /\ refRet' = Some(references(rows1, rows2))
    /\ ret' = Some(define_field(field[1], pksArg, rows1, rows2, commentRows))
    /\ pc' = "returned"
    /\ UNCHANGED <<FILTERS, field, pksArg, rows1, rows2, commentRows,
                   filterVars, runVars>>

NextField == DefineField

SpecField == InitField /\ [][NextField]_vars

\* C4: when the referencing-side query returns a row, references() returns a
\* reference or raises; it never returns None.
C4_MatchedReferenceNeverSilent ==
    pc = "returned" /\ rows1 # <<>> =>
        refRet[1].exc # "" \/ refRet[1].val # None

\* The reference type the resolver is to build for a single matching
\* constraint with a visible referenced side.
ExpectedReferenceType ==
    LET p == rows1[1].ordinal_position IN
    IF Len(rows2) = 1
    THEN "'reference " \o rows2[1].table_schema \o "." \o rows2[1].table_name
             \o "'"
    ELSE "'reference " \o rows2[p].table_schema \o "." \o rows2[p].table_name
             \o "." \o rows2[p].column_name \o "'"

\* C5: with exactly one matching constraint, a referenced side of one column
\* gives 'reference schema.table', a referenced side of several gives
\* 'reference schema.table.column' with the column at the referencing
\* column's ordinal position; ondelete is present exactly when the delete
\* rule is not NO ACTION.
C5_ReferenceTypeAndOndelete ==
    pc = "returned" /\ Len(rows1) = 1 /\ rows2 # <<>> =>
        /\ refRet[1].exc = ""
        /\ refRet[1].val # None
        /\ refRet[1].val[1]["type"] = ExpectedReferenceType
        /\ ("ondelete" \in DOMAIN refRet[1].val[1])
               <=> (rows1[1].delete_rule # "NO ACTION")
        /\ "ondelete" \in DOMAIN refRet[1].val[1] =>
               refRet[1].val[1]["ondelete"] = "'" \o rows1[1].delete_rule \o "'"

\* A keyed reference through the second column of the constraint, with an
\* on-delete rule.
C5_Witness ==
    /\ pc = "returned"
    /\ Len(rows1) = 1
    /\ Len(rows2) = 2
    /\ rows1[1].ordinal_position = 2
    /\ rows1[1].delete_rule = "CASCADE"
    /\ refRet[1].val # None
    /\ refRet[1].val[1]["type"] = "'reference public.film_actor.film_id'"

\* The column is neither a foreign-key reference nor an identity primary key,
\* and the resolver did not fail.
PlainColumn ==
    /\ pc = "returned"
    /\ refRet[1].exc = ""
    /\ refRet[1].val = None
    /\ ~ (/\ field[1].data.column_default # None
          /\ startswith(field[1].data.column_default[1], "nextval")
          /\ In(field[1].name, pksArg))

\* The dispatch table. with_tz says whether 'timestamp with time zone' is in
\* the table, as datetime. "fatal" stands for a data type outside the table.
DispatchTable(dt, precision, scale, with_tz) ==
    CASE startswith(dt, "character") -> "'string'"
      [] dt = "text" -> "'text'"
      [] dt \in {"boolean", "bit"} -> "'boolean'"
      [] dt \in {"integer", "smallint", "bigint"} -> "'integer'"
      [] dt \in {"double precision", "real"} -> "'double'"
      [] dt \in {"timestamp", "timestamp without time zone"} -> "'datetime'"
      [] dt = "timestamp with time zone" ->
            IF with_tz THEN "'datetime'" ELSE "fatal"
      [] dt = "date" -> "'date'"
      [] dt \in {"time", "time without time zone"} -> "'time'"
      [] dt \in {"numeric", "currency"} ->
            "'decimal(" \o (IF precision = None THEN "None"
                            ELSE ToString(precision[1]))
                \o "," \o (IF scale = None THEN "0" ELSE ToString(scale[1]))
                \o ")'"
      [] dt = "bytea" -> "'blob'"
      [] dt \in {"point", "lseg", "polygon", "unknown", "USER-DEFINED"} -> ""
      [] OTHER -> "fatal"

\* define_field follows the dispatch table on a plain column: a data type in
\* the table gives its tag, one outside it a RuntimeError naming schema,
\* table, column and type.
FollowsDispatchTable(with_tz) ==
    PlainColumn =>
        LET d == field[1].data
            want == DispatchTable(d.data_type, d.numeric_precision,
                                  d.numeric_scale, with_tz)
            unsupported == "Data Type not supported (" \o field[1].schema
                               \o "." \o field[1].table \o "." \o field[1].name
                               \o "): " \o d.data_type \o " "
        IN  IF want = "fatal"
            THEN ret[1].exc = "RuntimeError" /\ ret[1].msg = unsupported
            ELSE /\ ret[1].msg # unsupported
                 /\ ret[1].exc = "" => ret[1].val["type"] = want

\* C6 as amended: the dispatch table with timestamp and timestamp without
\* time zone as datetime; timestamp with time zone is outside the table and
\* is a fatal error like any other unlisted type.
C6_DispatchTable == FollowsDispatchTable(FALSE)

\* C6 as claimed: timestamp both with and without time zone is datetime.
C6_DispatchTableWithTimeZone == FollowsDispatchTable(TRUE)

\* A numeric column without a scale, mapped to decimal(10,0).
C6_Witness ==
    /\ PlainColumn
    /\ field[1].data.data_type = "numeric"
    /\ field[1].data.numeric_precision = Some(10)
    /\ field[1].data.numeric_scale = None
    /\ ret[1].exc = ""
    /\ ret[1].val["type"] = "'decimal(10,0)'"

\* C7: notnull=True is set exactly when the catalog reports the column as
\* not nullable (is_nullable = 'NO').
C7_NotnullWhenNotNullable ==
    pc = "returned" /\ ret[1].exc = "" =>
        (/\ "notnull" \in DOMAIN ret[1].val
         /\ ret[1].val["notnull"] = "True")
            <=> (field[1].data.is_nullable = "NO")

-----------------------------------------------------------------------------
(* Specification of a whole run of define_db *)

\* The most rows the tables query returns.
MaxTables == 2

\* The most columns a table has.
MaxColumns == 2

\* subsequence of seq at the positions S, in order
RECURSIVE Pick(_, _)
Pick(seq, S) ==
    IF seq = <<>> THEN <<>>
    ELSE (IF Len(seq) \in S THEN Pick(SubSeq(seq, 1, Len(seq) - 1), S)
                                     \o <<seq[Len(seq)]>>
          ELSE Pick(SubSeq(seq, 1, Len(seq) - 1), S))

\* the subsequences of seq of at most max elements
SubSeqs(seq, max) ==
    {Pick(seq, S) : S \in {T \in SUBSET (1..Len(seq)) : Cardinality(T) <= max}}

\* The tables of the catalog, in the order of the query (by table name).
CatalogTables == <<
    [table_schema |-> "other", table_name |-> "actor"],
    [table_schema |-> "public", table_name |-> "actor"],
    [table_schema |-> "public", table_name |-> "film"],
    [table_schema |-> "public", table_name |-> "film_actor"] >>

TableAnswers == SubSeqs(CatalogTables, MaxTables)

\* The column names a table may have, in ordinal order.
CatalogColumns == <<"film_id", "fulltext", "title">>

\* The data type and default of a column of a run.
RunShapes == {<<"integer", None>>,
              <<"tsvector", Some("nextval('film_film_id_seq'::regclass)")>>}

\* The rows the columns query can return for a table.
ColumnAnswers(table) ==
    UNION {
        {[i \in 1..Len(names) |->
             ColumnRow(table.schema, table.name, names[i], shape[i][1], "NO",
                       None, None, None, shape[i][2])] :
            shape \in [1..Len(names) -> RunShapes]} :
        names \in SubSeqs(CatalogColumns, MaxColumns)}

\* The rows the primary-key query can return for a table with these columns.
PrimaryKeyAnswers(columns) ==
    {[i \in 1..Len(keys) |-> [column_name |-> keys[i].column_name]] :
        keys \in SubSeqs(columns, Len(columns))}

\* The answers of the resolver's queries during a run: no foreign key; one
\* single-column foreign key; two foreign keys.
RunReferenceAnswers ==
    {<< <<>>, <<>> >>,
     << <<ReferencingRow("fk_a", "NO ACTION", 1)>>,
        <<ReferencedRow("actor_id")>> >>,
     << <<ReferencingRow("fk_a", "NO ACTION", 1),
          ReferencingRow("fk_b", "NO ACTION", 1)>>, <<>> >>}

UniqueAnswers == {<<>>, <<[column_name |-> "x"]>>}

InitRun ==
    /\ FILTERS \in FilterLists
    /\ pc = "define_db"
    /\ idleFilter
    /\ idleField
    /\ idleRun

\* define_db up to the head of its loop: the header is printed, then
\* get_tables reads and filters the catalog's tables.
DefineDb ==
    /\ pc = "define_db"
    /\ \E answer \in TableAnswers :
          /\ rows' = answer
          /\ tables' = get_tables(FILTERS, answer)
    /\ out' = out \o print_db_header
    /\ ti' = 1
    /\ pc' = "for table"
    /\ UNCHANGED <<FILTERS, filterVars, fieldVars, fields, fi, pks,
                   primarykeys0, queries, err>>

\* define_table up to the head of its loop: the fields and primary keys are
\* read, then the header of the table is printed.
DefineTable ==
    /\ pc = "for table"
    /\ ti <= Len(tables)
    /\ LET table == tables[ti] IN
       /\ \E columns \in ColumnAnswers(table) :
             /\ fields' = get_fields(FILTERS, table, columns)
             /\ \E keys \in PrimaryKeyAnswers(columns) :
                   /\ pks' = primarykeys(keys)
                   /\ primarykeys0' = primarykeys(keys)
       /\ queries' = queries \cup
             {Query("get_fields", table.schema, table.name,
                    <<table.name, table.schema>>),
              Query("primarykeys", table.schema, table.name,
                    <<table.name, table.schema>>)}
       /\ out' = out \o print_table_header(table)
    /\ fi' = 1
    /\ pc' = "for field"
    /\ UNCHANGED <<FILTERS, filterVars, fieldVars, rows, tables, ti, err>>

\* The queries one pass of the field loop issues, given how far it got.
field_queries(fld, r1, fdef, keys) ==
    {Query("references", fld.schema, fld.table,
           <<fld.table, fld.schema, fld.name>>)}
    \cup (IF Len(r1) = 1
          THEN {Query("references2", fld.schema, fld.table,
                      <<r1[1].constraint_name, r1[1].constraint_schema>>)}
          ELSE {})
    \cup (IF fdef.exc = ""
          THEN {Query("get_comment", fld.schema, fld.table,
                      <<fld.table, fld.name>>)}
          ELSE {})
    \cup (IF fdef.exc = "" /\ ~In(fld.name, keys)
          THEN {Query("is_unique", fld.schema, fld.table,
                      <<fld.table, fld.name>>)}
          ELSE {})

\* One pass of the loop over the fields: define_field, the uniqueness check,
\* the removal of an identity column from pks, and the Field line. An
\* exception of define_field ends the run.
DefineTableField ==
    /\ pc = "for field"
    /\ fi <= Len(fields)
    /\ \E answer \in RunReferenceAnswers, urows \in UniqueAnswers :
          LET fld == fields[fi]
              fname == fld.name
              fdef == define_field(fld, pks, answer[1], answer[2], <<>>)
              fdef2 == IF ~In(fname, pks) /\ is_unique(urows)
                       THEN ("unique" :> "True") @@ fdef.val
                       ELSE fdef.val
          IN  /\ queries' = queries \cup
                    field_queries(fld, answer[1], fdef, pks)
              /\ IF fdef.exc # ""
                 THEN /\ err' = fdef.msg
                      /\ pc' = "raised"
                      /\ UNCHANGED <<pks, out, fi>>
                 ELSE /\ pks' = IF fdef2["type"] = "'id'" /\ In(fname, pks)
                                THEN pop_first(pks, fname)
                                ELSE pks
                      /\ out' = out \o print_field(fname, fdef2)
                      /\ fi' = fi + 1
                      /\ UNCHANGED <<err, pc>>
    /\ UNCHANGED <<FILTERS, filterVars, fieldVars, rows, tables, ti, fields,
                   primarykeys0>>

\* define_table after its loop: the primarykey line, if any key is left, and
\* the closing lines.
DefineTableEnd ==
    /\ pc = "for field"
    /\ fi > Len(fields)
    /\ out' = out \o print_table_footer(pks)
    /\ ti' = ti + 1
    /\ pc' = "for table"
    /\ UNCHANGED <<FILTERS, filterVars, fieldVars, rows, tables, fields, fi,
                   pks, primarykeys0, queries, err>>

\* define_db after its loop.
DefineDbEnd ==
    /\ pc = "for table"
    /\ ti > Len(tables)
    /\ pc' = "done"
    /\ UNCHANGED <<FILTERS, filterVars, fieldVars, runVars>>

Next ==
    \/ DefineDb
    \/ DefineTable
    \/ DefineTableField
    \/ DefineTableEnd
    \/ DefineDbEnd

Spec == InitRun /\ [][Next]_vars

\* The position in out of the header of the last table block, 0 if none.
LastHeader ==
    LET at == {i \in 1..Len(out) : out[i].stmt = "db.define_table"}
    IN  IF at = {} THEN 0 ELSE CHOOSE i \in at : \A j \in at : j <= i

\* The lines of the last table block printed so far.
Block == IF LastHeader = 0 THEN <<>> ELSE SubSeq(out, LastHeader, Len(out))

\* The Field lines of the last table block; the i-th is that of fields[i].
BlockFields == SelectSeq(Block, LAMBDA line : line.stmt = "Field")

\* The primarykey lines of the last table block.
BlockKeys == SelectSeq(Block, LAMBDA line : line.stmt = "primarykey")

\* The type a Field line carries, "" if it carries none.
type_of(line) ==
    IF \E a \in 1..Len(line.args) : line.args[a][1] = "type"
    THEN line.args[CHOOSE a \in 1..Len(line.args) : line.args[a][1] = "type"][2]
    ELSE ""

\* How many lines of out belong to the statement.
Count(stmt) == Cardinality({i \in 1..Len(out) : out[i].stmt = stmt})

\* The last table block is closed.
BlockComplete == pc \in {"for table", "done"} /\ ti > 1

\* The rows of the tables query whose rule lookup yields exclude.
Excluded ==
    {i \in 1..Len(rows) :
        get_generateInfo(FILTERS, <<rows[i].table_schema, rows[i].table_name>>)
            = None}

\* C2: for a table whose table-level rule lookup yields exclude, the run
\* issues no column enumeration, primary-key, uniqueness, foreign-key or
\* comment query and prints no text.
C2_ExcludedTableNeverVisited ==
    \A i \in Excluded :
        LET on == <<rows[i].table_schema, rows[i].table_name>> IN
        /\ \A q \in queries : q.on # on
        /\ \A l \in 1..Len(out) :
              out[l].stmt = "rname" =>
                  out[l].name # rows[i].table_schema \o "." \o rows[i].table_name
        /\ \A t \in 1..Len(tables) : <<tables[t].schema, tables[t].name>> # on

\* A finished run over a catalog with an excluded table ordered before an
\* included one, whose columns were queried and printed.
C2_Witness ==
    /\ pc = "done"
    /\ 1 \in Excluded
    /\ Len(tables) = 1
    /\ Count("Field") >= 1
    /\ \E q \in queries : q.q = "is_unique"

\* fields[i] has a sequence-generator default and is the sole primary key.
SerialSoleKey(i) ==
    /\ fields[i].data.column_default # None
    /\ startswith(fields[i].data.column_default[1], "nextval")
    /\ primarykeys0 = <<fields[i].name>>

\* fields[i] was emitted as the identity field and is named by no primarykey
\* declaration.
EmittedAsIdentity(i) ==
    /\ type_of(BlockFields[i]) = "'id'"
    /\ ~In(fields[i].name, pks)
    /\ \A k \in 1..Len(BlockKeys) : ~In(fields[i].name, BlockKeys[k].keys)

\* C3 as claimed: an included column with a sequence-generator default that
\* is the sole primary key is emitted with type 'id' and removed from the
\* primary-key list, whatever other constraints it participates in.
C3_SerialSoleKeyIsIdentity ==
    \A i \in 1..(fi - 1) : SerialSoleKey(i) => EmittedAsIdentity(i)

\* C3 as amended: the same, for a column for which references() returned no
\* reference (a reference takes the place of the identity type).
C3_SerialSoleKeyIsIdentityUnlessReference ==
    \A i \in 1..(fi - 1) :
        SerialSoleKey(i) /\ ~startswith(type_of(BlockFields[i]), "'reference")
            => EmittedAsIdentity(i)

\* A closed block whose sole primary key has a sequence-generator default and
\* a declared type outside the dispatch table, emitted as 'id'.
C3_Witness ==
    /\ BlockComplete
    /\ \E i \in 1..(fi - 1) :
          /\ SerialSoleKey(i)
          /\ fields[i].data.data_type = "tsvector"
          /\ EmittedAsIdentity(i)
    /\ BlockKeys = <<>>

\* C8 as claimed: a run that ends in a fatal error has printed nothing.
C8_NoOutputOnFatalError ==
    pc = "raised" => out = <<>>

\* C8 as amended: a fatal error ends the run at once, and what was printed
\* before it stays printed: the header, the closed blocks of the tables
\* defined before, and the open block of the failing table with the Field
\* lines of the columns before the failing one.
C8_PartialOutputOnFatalError ==
    pc = "raised" =>
        /\ err # ""
        /\ SubSeq(out, 1, Len(print_db_header)) = print_db_header
        /\ Count("db.define_table") = ti
        /\ Count("rname") = ti
        /\ Count("migrate=migrate)") = ti - 1
        /\ out[LastHeader + 1].name = tables[ti].schema \o "." \o tables[ti].name
        /\ Len(Block) = 2 + (fi - 1)
        /\ \A i \in 1..(fi - 1) :
              Block[2 + i].stmt = "Field" /\ Block[2 + i].name = fields[i].name
        /\ ~ ENABLED Next

\* A fatal error in the second table, after a field of it was printed.
C8_Witness ==
    /\ pc = "raised"
    /\ ti = 2
    /\ fi = 2
    /\ Count("migrate=migrate)") = 1

\* The primary-key columns an identity override did not consume, in order.
Unconsumed ==
    SelectSeq(primarykeys0, LAMBDA key :
        ~ \E i \in 1..Len(BlockFields) :
              BlockFields[i].name = key /\ type_of(BlockFields[i]) = "'id'")

\* C10: the primarykey declaration of a block lists exactly the primary-key
\* columns no identity override consumed, in their original order, and every
\* column it names is a Field of the block.
C10_PrimarykeyNamesEmittedFields ==
    BlockComplete =>
        /\ IF Unconsumed = <<>> THEN BlockKeys = <<>>
           ELSE Len(BlockKeys) = 1 /\ BlockKeys[1].keys = Unconsumed
        /\ \A k \in 1..Len(BlockKeys) :
              \A n \in 1..Len(BlockKeys[k].keys) :
                  \E i \in 1..Len(BlockFields) :
                      BlockFields[i].name = BlockKeys[k].keys[n]

====
